---- MODULE Spec2Model ----
(***************************************************************************)
(* A model of flask_peewee/filters.py: the field tree built by             *)
(* make_field_tree, the form names of FilterForm.get_field_dict, the       *)
(* request parser FilterForm.parse_query_filters and the query assembly    *)
(* of FilterForm.process_request.                                          *)
(*                                                                         *)
(* Python strings that the code takes apart (field names, include and      *)
(* exclude entries, parameter names, operator selectors) are sequences of  *)
(* one-character strings, so startswith, replace, join and int() are       *)
(* computed character by character as Python computes them.  Raw filter    *)
(* values, which the code only passes on, are opaque strings.              *)
(***************************************************************************)
EXTENDS Integers, Sequences, FiniteSets, TLC

VARIABLES form_model,    \* FilterForm.__init__: model
          form_fields,   \* FilterForm.__init__: fields (None or a list)
          form_exclude,  \* FilterForm.__init__: exclude
          phase,         \* "new", "ready" (form built), "done" (request processed), "failed"
          field_tree,    \* self._field_tree
          query_filters, \* self._query_filters
          args,          \* flask's request.args: parameter name -> list of values
          accum,         \* the result of parse_query_filters
          query,         \* the calls process_request made on the query, in order
          cleaned,       \* process_request's list of (qf_s, idx, qf_v, value)
          error          \* the exception that ended the last operation, or "none"

vars == <<form_model, form_fields, form_exclude, phase, field_tree, query_filters,
          args, accum, query, cleaned, error>>

---------------------------------------------------------------------------
(* Bounds of the model *)

\* the longest include list
MaxFields == 3
\* the longest exclude list
MaxExclude == 1
\* the interpreter's limit on nested calls (Python: sys.getrecursionlimit())
RecursionLimit == 5
\* the most occurrences of one parameter in a request
MaxOcc == 2
\* the most parameter occurrences in a request
MaxArgs == 4
\* the most fields of the form a request fills in: a field takes a selector
\* and a value to be matched
MaxPositions == MaxArgs \div 2

---------------------------------------------------------------------------
(* Python values *)

None == {}
Some(x) == {x}
TheList(opt) == CHOOSE l \in opt : TRUE

InSeq(x, s) == \E i \in 1..Len(s) : s[i] = x

startswith(s, p) == Len(s) >= Len(p) /\ SubSeq(s, 1, Len(p)) = p

\* str.replace(old, ''): every non-overlapping occurrence, left to right
RECURSIVE replace(_, _)
replace(s, old) ==
    IF Len(s) < Len(old) THEN s
    ELSE IF startswith(s, old) THEN replace(SubSeq(s, Len(old) + 1, Len(s)), old)
    ELSE <<Head(s)>> \o replace(Tail(s), old)

Digits == <<"0", "1", "2", "3", "4", "5", "6", "7", "8", "9">>
DigitVal(c) == (CHOOSE i \in 1..10 : Digits[i] = c) - 1
IsDigit(c) == \E i \in 1..10 : Digits[i] = c

\* str(i) for i >= 0
RECURSIVE str(_)
str(i) == IF i < 10 THEN <<Digits[i + 1]>> ELSE str(i \div 10) \o <<Digits[(i % 10) + 1]>>

RECURSIVE lstrip(_)
lstrip(s) == IF s # <<>> /\ Head(s) = " " THEN lstrip(Tail(s)) ELSE s
RECURSIVE rstrip(_)
rstrip(s) == IF s # <<>> /\ s[Len(s)] = " " THEN rstrip(SubSeq(s, 1, Len(s) - 1)) ELSE s

RECURSIVE DigitsVal(_)
DigitsVal(s) == IF s = <<>> THEN 0 ELSE 10 * DigitsVal(SubSeq(s, 1, Len(s) - 1)) + DigitVal(s[Len(s)])

\* int(s): surrounding blanks, an optional sign, then at least one digit;
\* anything else raises ValueError
int(s) ==
    LET t == rstrip(lstrip(s))
        signed == t # <<>> /\ Head(t) \in {"-", "+"}
        d == IF signed THEN Tail(t) ELSE t
    IN IF d # <<>> /\ \A i \in 1..Len(d) : IsDigit(d[i])
       THEN [ok |-> TRUE, val |-> IF signed /\ Head(t) = "-" THEN 0 - DigitsVal(d) ELSE DigitsVal(d)]
       ELSE [ok |-> FALSE, val |-> 0]

\* list[idx]: a negative index counts from the end; out of range raises IndexError
InRange(l, idx) == idx >= 0 - Len(l) /\ idx < Len(l)
getitem(l, idx) == IF idx >= 0 THEN l[idx + 1] ELSE l[Len(l) + idx + 1]

\* zip(a, b) stops at the shorter list
zip(a, b) == [i \in 1..(IF Len(a) < Len(b) THEN Len(a) ELSE Len(b)) |-> <<a[i], b[i]>>]

\* some fixed order of a set: the iteration order of a dict's keys
RECURSIVE items(_)
items(S) == IF S = {} THEN <<>> ELSE LET x == CHOOSE y \in S : TRUE IN <<x>> \o items(S \ {x})

RECURSIVE Flatten(_)
Flatten(ss) == IF ss = <<>> THEN <<>> ELSE Head(ss) \o Flatten(Tail(ss))

---------------------------------------------------------------------------
(* The models the form is built for: peewee's model._meta *)

id == <<"i", "d">>
name == <<"n", "a", "m", "e">>
title == <<"t", "i", "t", "l", "e">>
author == <<"a", "u", "t", "h", "o", "r">>
parent == <<"p", "a", "r", "e", "n", "t">>
\* the '__' of '%s__' % field_obj.name
Dunder == <<"_", "_">>
Path2(a, b) == a \o Dunder \o b
Path3(a, b, c) == a \o Dunder \o b \o Dunder \o c

Models == {"User", "Post", "Comment", "Reply", "Node"}

\* model._meta.get_field_names()
get_field_names(model) ==
    CASE model = "User" -> <<name>>
      [] model = "Post" -> <<id, title, author>>
      [] model = "Comment" -> <<parent, author>>
      [] model = "Reply" -> <<parent>>
      [] model = "Node" -> <<name, parent>>

\* model._meta.fields: the class of each field and, for a ForeignKeyField, field_obj.to
FieldClass(model, f) ==
    CASE f = id -> "PrimaryKeyField"
      [] f \in {name, title} -> "CharField"
      [] OTHER -> "ForeignKeyField"

rel_to(model, f) ==
    CASE model = "Post" /\ f = author -> "User"
      [] model = "Comment" /\ f = parent -> "Post"
      [] model = "Comment" /\ f = author -> "User"
      [] model = "Reply" /\ f = parent -> "Comment"
      [] model = "Node" /\ f = parent -> "Node"

HasField(model, f) == InSeq(f, get_field_names(model))
FieldObj(model, f) == [model |-> model, name |-> f]
IsForeignKey(field) == FieldClass(field.model, field.name) = "ForeignKeyField"

---------------------------------------------------------------------------
(* make_field_tree *)

\* the list comprehensions that scope the include and the exclude list into
\* the child of relation rel: the entries that start with 'rel__', with
\* str.replace('rel__', '') applied to each
rel_entries(entries, rel) ==
    LET prefix == rel \o Dunder
        scoped == SelectSeq(entries, LAMBDA e : startswith(e, prefix))
    IN [i \in 1..Len(scoped) |-> replace(scoped[i], prefix)]

\* level_names with a relation kept as soon as a dotted entry goes through it
level_names_dotted(model, names, exclude) ==
    SelectSeq(get_field_names(model),
              LAMBDA f : /\ ~InSeq(f, exclude)
                         /\ \/ InSeq(f, names)
                            \/ \E i \in 1..Len(names) : startswith(names[i], f \o Dunder))

\* the names the loop "for f in fields" keeps at one level: not excluded,
\* and a field of the model
level_names(model, names, exclude) ==
    SelectSeq(names, LAMBDA f : ~InSeq(f, exclude) /\ HasField(model, f))

\* FieldTreeNode(model, fields, children).  in_fields and in_exclude record
\* the arguments of the call that built the node; limit marks a call the
\* interpreter refused because the calls were nested RecursionLimit deep.
FieldTreeNode(model, model_fields, children, in_fields, in_exclude, limit) ==
    [model |-> model, fields |-> model_fields, children |-> children,
     in_fields |-> in_fields, in_exclude |-> in_exclude, limit |-> limit]

NoChildren == [r \in {} |-> r]

RECURSIVE make_field_tree(_, _, _, _)
make_field_tree(model, fields, exclude, depth) ==
    IF depth > RecursionLimit
    THEN FieldTreeNode(model, <<>>, NoChildren, fields, exclude, TRUE)
    ELSE
    LET no_explicit_fields == fields = None
        names == IF no_explicit_fields THEN get_field_names(model) ELSE TheList(fields)
        kept == level_names(model, names, exclude)
        model_fields == [i \in 1..Len(kept) |-> FieldObj(model, kept[i])]
        rels == {kept[i] : i \in {j \in 1..Len(kept) : IsForeignKey(model_fields[j])}}
        rel_fields(r) == IF no_explicit_fields THEN None ELSE Some(rel_entries(names, r))
        rel_exclude(r) == rel_entries(exclude, r)
        children == [r \in rels |->
                        make_field_tree(rel_to(model, r), rel_fields(r), rel_exclude(r), depth + 1)]
    IN FieldTreeNode(model, model_fields, children, fields, exclude, FALSE)

\* the build ran into the interpreter's recursion limit (RuntimeError)
RECURSIVE HitLimit(_)
HitLimit(node) == node.limit \/ \E r \in DOMAIN node.children : HitLimit(node.children[r])

\* the node reached from node by the relation names of path, or None
RECURSIVE NodeAt(_, _)
NodeAt(node, path) ==
    IF path = <<>> THEN Some(node)
    ELSE IF Head(path) \in DOMAIN node.children
         THEN NodeAt(node.children[Head(path)], Tail(path))
         ELSE None

\* every path of relation names that leads to a node of the tree
RECURSIVE Paths(_)
Paths(node) ==
    {<<>>} \cup UNION {{<<r>> \o p : p \in Paths(node.children[r])} : r \in DOMAIN node.children}

FieldNames(node) == {node.fields[i].name : i \in 1..Len(node.fields)}

---------------------------------------------------------------------------
(* FilterMapping and FilterForm.load_query_filters *)

string == <<"EqualQueryFilter", "NotEqualQueryFilter", "StartsWithQueryFilter",
            "ContainsQueryFilter">>
numeric == <<"EqualQueryFilter", "NotEqualQueryFilter", "LessThanQueryFilter",
             "GreaterThanQueryFilter", "LessThanEqualToQueryFilter",
             "GreaterThanEqualToQueryFilter">>
foreign_key == <<"EqualQueryFilter", "NotEqualQueryFilter">>
boolean == <<"EqualQueryFilter", "NotEqualQueryFilter">>

\* FilterMapping.get_field_types
get_field_types(class) ==
    CASE class \in {"CharField", "TextField"} -> "string"
      [] class = "BooleanField" -> "boolean"
      [] class = "ForeignKeyField" -> "foreign_key"
      [] OTHER -> "numeric"

\* FilterMapping.convert: the query filters of a field, in order
convert(field) ==
    LET kind == get_field_types(FieldClass(field.model, field.name))
    IN CASE kind = "string" -> string
         [] kind = "boolean" -> boolean
         [] kind = "foreign_key" -> foreign_key
         [] OTHER -> numeric

RECURSIVE TreeFields(_)
TreeFields(node) ==
    {node.fields[i] : i \in 1..Len(node.fields)}
        \cup UNION {TreeFields(node.children[r]) : r \in DOMAIN node.children}

\* FilterForm.load_query_filters
load_query_filters(tree) == [field \in TreeFields(tree) |-> convert(field)]

---------------------------------------------------------------------------
(* FilterForm.get_field_dict, and the names the form gives its inputs *)

fo_ == <<"f", "o", "_">>
fv_ == <<"f", "v", "_">>
fr_ == <<"f", "r", "_">>
\* FilterForm.separator
separator == <<"-">>

\* FilterForm.get_operation_field: the choices (str(i), operation) of the select
get_operation_field(filters) ==
    [type |-> "SelectField", choices |-> [i \in 1..Len(filters) |-> str(i - 1)]]

\* the key of a nested form: 'fr_%s' % prefix
form_key(prefix) == fr_ \o prefix

RECURSIVE get_field_dict(_, _)
get_field_dict(node, filters) ==
    LET names == FieldNames(node)
        rels == DOMAIN node.children
        keys == {fo_ \o f : f \in names} \cup {fv_ \o f : f \in names}
                    \cup {form_key(r) : r \in rels}
    IN [k \in keys |->
          IF \E f \in names : k = fo_ \o f
          THEN get_operation_field(filters[FieldObj(node.model, CHOOSE f \in names : k = fo_ \o f)])
          ELSE IF \E f \in names : k = fv_ \o f
          THEN [type |-> "ValueField"]
          ELSE [type |-> "FormField", separator |-> separator,
                form |-> get_field_dict(node.children[CHOOSE r \in rels : k = form_key(r)],
                                        filters)]]

\* wtforms: a field of a form is named prefix + key, and a FormField hands
\* its own name + separator to its form as the prefix
RECURSIVE FormNames(_, _)
FormNames(field_dict, prefix) ==
    UNION {IF field_dict[k].type = "FormField"
           THEN FormNames(field_dict[k].form, prefix \o k \o field_dict[k].separator)
           ELSE {prefix \o k} : k \in DOMAIN field_dict}

\* the inputs of the form, field by field: the names of the select and of
\* the value input that get_field_dict makes together, and the select's choices
RECURSIVE FormInputs(_, _)
FormInputs(field_dict, prefix) ==
    UNION {IF field_dict[k].type = "FormField"
           THEN FormInputs(field_dict[k].form, prefix \o k \o field_dict[k].separator)
           ELSE IF field_dict[k].type = "SelectField"
                THEN {[select |-> prefix \o k,
                       value |-> prefix \o fv_ \o SubSeq(k, Len(fo_) + 1, Len(k)),
                       choices |-> field_dict[k].choices]}
                ELSE {} : k \in DOMAIN field_dict}

---------------------------------------------------------------------------
(* FilterForm.parse_query_filters *)

\* 'fo_'.join((prefix, field.name))
qf_select(prefix, fname) == prefix \o fo_ \o fname
\* 'fv_'.join((prefix, field.name))
qf_value(prefix, fname) == prefix \o fv_ \o fname
\* new_prefix with '_' for the separator
new_prefix_underscore(prefix, child_prefix) == prefix \o fr_ \o child_prefix \o <<"_">>
\* prefix + 'fr_' + child_prefix + '-'
new_prefix(prefix, child_prefix) == prefix \o fr_ \o child_prefix \o <<"-">>
\* join_copy that leaves the relation out
join_copy_same(join_columns, child_prefix) == join_columns
\* list(join_columns) + [child_prefix]
join_copy(join_columns, child_prefix) == Append(join_columns, child_prefix)
\* list(models) + [child.model]
model_copy(models, child) == Append(models, child.model)

\* both_present with "or" for "and"
either_present(request_args, select, value) ==
    select \in DOMAIN request_args \/ value \in DOMAIN request_args
\* qf_select in request.args and qf_value in request.args
both_present(request_args, select, value) ==
    select \in DOMAIN request_args /\ value \in DOMAIN request_args

\* request.args.getlist(key): the values of the parameter, [] when it is absent
getlist(request_args, key) == IF key \in DOMAIN request_args THEN request_args[key] ELSE <<>>

\* _dfs: the fields in the order the search visits them, each with the two
\* parameter names it looks up and the paths that the search has
\* accumulated on its way to the field's node
RECURSIVE _dfs(_, _, _, _)
_dfs(node, prefix, models, join_columns) ==
    LET own == [i \in 1..Len(node.fields) |->
                  [field |-> node.fields[i],
                   qf_s |-> qf_select(prefix, node.fields[i].name),
                   qf_v |-> qf_value(prefix, node.fields[i].name),
                   path |-> models, join_path |-> join_columns]]
        order == items(DOMAIN node.children)
        below == Flatten([i \in 1..Len(order) |->
                    _dfs(node.children[order[i]], new_prefix(prefix, order[i]),
                         model_copy(models, node.children[order[i]]),
                         join_copy(join_columns, order[i]))])
    IN own \o below

\* accum: field -> the list of its matches; a visited field is appended
\* when both its parameters are in the request
parse_query_filters(tree, request_args) ==
    LET visited == _dfs(tree, <<>>, <<>>, <<>>)
        found == SelectSeq(visited, LAMBDA m : both_present(request_args, m.qf_s, m.qf_v))
        match(m) == [field |-> m.field,
                     filter_idx_list |-> getlist(request_args, m.qf_s),
                     filter_value_list |-> getlist(request_args, m.qf_v),
                     path |-> m.path, join_path |-> m.join_path,
                     qf_s |-> m.qf_s, qf_v |-> m.qf_v]
        keys == {found[i].field : i \in 1..Len(found)}
    IN [field \in keys |->
          LET mine == SelectSeq(found, LAMBDA m : m.field = field)
          IN [i \in 1..Len(mine) |-> match(mine[i])]]

---------------------------------------------------------------------------
(* FilterForm.process_request *)

\* query.switch(self.model) and one query.join(model, on=join) for each
\* pair of zip(join_path, path)
join_calls(root, match) ==
    LET hops == zip(match.join_path, match.path)
    IN <<[op |-> "switch", model |-> root]>>
          \o [i \in 1..Len(hops) |-> [op |-> "join", model |-> hops[i][2], on |-> hops[i][1]]]

\* the (selector, value) pairs the inner loop runs over
filter_pairs(match) == zip(match.filter_idx_list, match.filter_value_list)

\* the exception the inner loop raises at one pair, or "none": int() raises
\* ValueError, the lookup self._query_filters[field][idx] raises IndexError
pair_error(filters, pair) ==
    LET idx == int(pair[1])
    IN IF ~idx.ok THEN "ValueError"
       ELSE IF ~InRange(filters, idx.val) THEN "IndexError"
       ELSE "none"

\* query_filter.query(filter_value) of the filter that the selector picks
q_object(filters, field, pair) ==
    [filter |-> getitem(filters, int(pair[1]).val), field |-> field, value |-> pair[2]]

\* the body of the loop over a field's matches, for one match: the calls on
\* the query, the tuples appended to cleaned, and the exception raised
process_match(root, filters, match) ==
    LET pairs == filter_pairs(match)
        bad == {i \in 1..Len(pairs) : pair_error(filters, pairs[i]) # "none"}
        first == CHOOSE i \in bad : \A j \in bad : i <= j
    IN IF bad # {}
       THEN [error |-> pair_error(filters, pairs[first]), calls |-> <<>>, cleaned |-> <<>>]
       ELSE IF pairs = <<>>
       THEN [error |-> "TypeError", calls |-> <<>>, cleaned |-> <<>>]
       ELSE [error |-> "none",
             calls |-> join_calls(root, match)
                        \o <<[op |-> "where",
                              q_objects |-> [i \in 1..Len(pairs) |->
                                                q_object(filters, match.field, pairs[i])]]>>,
             cleaned |-> [i \in 1..Len(pairs) |->
                            <<match.qf_s, int(pairs[i][1]).val, match.qf_v, pairs[i][2]>>]]

\* process_request: what it returns (query, cleaned), or the exception that
\* ends it.  The fields are taken in the order of the dict accum.
process_request(root, filters, matches) ==
    LET order == items(DOMAIN matches)
        all == Flatten([i \in 1..Len(order) |-> matches[order[i]]])
        done == [i \in 1..Len(all) |-> process_match(root, filters[all[i].field], all[i])]
        bad == {i \in 1..Len(all) : done[i].error # "none"}
        first == CHOOSE i \in bad : \A j \in bad : i <= j
    IN IF bad # {}
       THEN [error |-> done[first].error, query |-> <<>>, cleaned |-> <<>>]
       ELSE [error |-> "none",
             query |-> Flatten([i \in 1..Len(all) |-> done[i].calls]),
             cleaned |-> Flatten([i \in 1..Len(all) |-> done[i].cleaned])]

---------------------------------------------------------------------------
(* The configurations a FilterForm is built with *)

\* the lists without repetition of at most n elements of S
RECURSIVE Lists(_, _)
Lists(S, n) ==
    IF n = 0 THEN {<<>>}
    ELSE {<<>>} \cup UNION {{<<x>> \o l : l \in Lists(S \ {x}, n - 1)} : x \in S}

\* the entries an include or exclude list is made of: the dotted paths of
\* the model's fields
Entries(model) ==
    CASE model = "User" -> {name}
      [] model = "Post" -> {id, title, author, Path2(author, name)}
      [] model = "Comment" -> {parent, author, Path2(author, name), Path2(parent, title),
                               Path2(parent, author), Path3(parent, author, name)}
      [] model = "Reply" -> {parent, Path2(parent, parent), Path2(parent, author),
                             Path3(parent, parent, title), Path3(parent, parent, author)}
      [] model = "Node" -> {name, parent, Path2(parent, name), Path2(parent, parent),
                            Path3(parent, parent, name)}

Roots == {"Post", "Comment", "Reply", "Node"}

InitTree ==
    /\ form_model \in Roots
    /\ form_fields \in {None} \cup {Some(l) : l \in Lists(Entries(form_model), MaxFields)}
    /\ form_exclude \in Lists(Entries(form_model), MaxExclude)
    /\ phase = "new"
    /\ field_tree = FieldTreeNode(form_model, <<>>, NoChildren, None, <<>>, FALSE)
    /\ query_filters = <<>>
    /\ args = <<>>
    /\ accum = <<>>
    /\ query = <<>>
    /\ cleaned = <<>>
    /\ error = "none"

\* FilterForm.__init__
Construct ==
    /\ phase = "new"
    /\ LET tree == make_field_tree(form_model, form_fields, form_exclude, 1)
       IN IF HitLimit(tree)
          THEN /\ phase' = "failed"
               /\ error' = "RuntimeError"
               /\ UNCHANGED <<field_tree, query_filters>>
          ELSE /\ phase' = "ready"
               /\ field_tree' = tree
               /\ query_filters' = load_query_filters(tree)
               /\ UNCHANGED error
    /\ UNCHANGED <<form_model, form_fields, form_exclude, args, accum, query, cleaned>>

NextTree == Construct

SpecTree == InitTree /\ [][NextTree]_vars

---------------------------------------------------------------------------
(* Requests *)

\* the raw values a client sends
Values == {"A", "B"}
\* the operator selectors a client sends: choices of the form's selects and
\* text that is no choice of any
Selectors == {str(0), <<"-", "1">>, str(99), <<"x">>}

\* the form a client fills in
TheForm == get_field_dict(field_tree, query_filters)

RECURSIVE Occurrences(_, _)
Occurrences(request_args, names) ==
    IF names = {} THEN 0
    ELSE LET n == CHOOSE x \in names : TRUE
         IN Len(request_args[n]) + Occurrences(request_args, names \ {n})

\* MultiDict: one more occurrence of parameter n
add(request_args, n, v) ==
    [k \in DOMAIN request_args \cup {n} |->
        IF k \in DOMAIN request_args
        THEN (IF k = n THEN Append(request_args[k], v) ELSE request_args[k])
        ELSE <<v>>]

Filled(request_args, input) ==
    input.select \in DOMAIN request_args \/ input.value \in DOMAIN request_args

\* the configurations the requests are run against
ReqConfigs ==
    {[model |-> "Node", fields |-> None, exclude |-> <<>>],
     [model |-> "Post", fields |-> None, exclude |-> <<author>>],
     [model |-> "Comment", fields |-> None, exclude |-> <<parent>>],
     [model |-> "Comment",
      fields |-> Some(<<parent, author, Path2(parent, title), Path2(author, name)>>),
      exclude |-> <<>>],
     [model |-> "Comment",
      fields |-> Some(<<parent, Path2(parent, author), Path3(parent, author, name)>>),
      exclude |-> <<>>],
     [model |-> "Node", fields |-> Some(<<name, parent, Path2(parent, name)>>),
      exclude |-> <<>>],
     [model |-> "Node",
      fields |-> Some(<<parent, Path2(parent, name), Path3(parent, parent, name)>>),
      exclude |-> <<>>]}

InitReq ==
    /\ \E c \in ReqConfigs :
          /\ form_model = c.model
          /\ form_fields = c.fields
          /\ form_exclude = c.exclude
    /\ phase = "new"
    /\ field_tree = FieldTreeNode(form_model, <<>>, NoChildren, None, <<>>, FALSE)
    /\ query_filters = <<>>
    /\ args = <<>>
    /\ accum = <<>>
    /\ query = <<>>
    /\ cleaned = <<>>
    /\ error = "none"

\* a client adds one parameter to the query string of its request
AddArg ==
    /\ phase = "ready"
    /\ Occurrences(args, DOMAIN args) < MaxArgs
    /\ LET inputs == FormInputs(TheForm, <<>>)
           filled == Cardinality({x \in inputs : Filled(args, x)})
       IN \E input \in inputs :
          /\ Filled(args, input) \/ filled < MaxPositions
          /\ \/ \E v \in Selectors :
                   /\ input.select \in DOMAIN args => Len(args[input.select]) < MaxOcc
                   /\ args' = add(args, input.select, v)
             \/ \E v \in Values :
                   /\ input.value \in DOMAIN args => Len(args[input.value]) < MaxOcc
                   /\ args' = add(args, input.value, v)
    /\ UNCHANGED <<form_model, form_fields, form_exclude, phase, field_tree, query_filters,
                   accum, query, cleaned, error>>

\* FilterForm.process_request on the request
ProcessRequest ==
    /\ phase = "ready"
    /\ LET matches == parse_query_filters(field_tree, args)
           r == process_request(form_model, query_filters, matches)
       IN /\ accum' = matches
          /\ query' = r.query
          /\ cleaned' = r.cleaned
          /\ error' = r.error
    /\ phase' = "done"
    /\ UNCHANGED <<form_model, form_fields, form_exclude, field_tree, query_filters, args>>

\* the next request comes in
NewRequest ==
    /\ phase = "done"
    /\ phase' = "ready"
    /\ args' = <<>>
    /\ accum' = <<>>
    /\ query' = <<>>
    /\ cleaned' = <<>>
    /\ error' = "none"
    /\ UNCHANGED <<form_model, form_fields, form_exclude, field_tree, query_filters>>

NextReq == Construct \/ AddArg \/ ProcessRequest \/ NewRequest

SpecReq == InitReq /\ [][NextReq]_vars

---------------------------------------------------------------------------
(* Properties of make_field_tree, checked under SpecTree *)

\* s.split('__'): the names of a dotted path
RECURSIVE split(_, _)
split(s, piece) ==
    IF \E i \in 1..Len(s) : startswith(SubSeq(s, i, Len(s)), Dunder)
    THEN LET i == CHOOSE k \in 1..Len(s) :
                    /\ startswith(SubSeq(s, k, Len(s)), Dunder)
                    /\ \A j \in 1..(k - 1) : ~startswith(SubSeq(s, j, Len(s)), Dunder)
         IN split(SubSeq(s, i + Len(Dunder), Len(s)), Append(piece, SubSeq(s, 1, i - 1)))
    ELSE Append(piece, s)

\* the relation names an entry goes through, and the field it names
Relations(entry) == LET p == split(entry, <<>>) IN SubSeq(p, 1, Len(p) - 1)
Named(entry) == LET p == split(entry, <<>>) IN p[Len(p)]

\* the field an entry names is in the tree, as a field or as a child node
InTree(tree, entry) ==
    \E node \in NodeAt(tree, Relations(entry)) :
        Named(entry) \in FieldNames(node) \/ Named(entry) \in DOMAIN node.children
HasChild(tree, entry) ==
    \E node \in NodeAt(tree, Relations(entry)) : Named(entry) \in DOMAIN node.children

IncludeSet == IF form_fields = None THEN {}
              ELSE {TheList(form_fields)[i] : i \in 1..Len(TheList(form_fields))}
ExcludeSet == {form_exclude[i] : i \in 1..Len(form_exclude)}

\* C1: exclusion always wins.  In the tree built from any (include, exclude)
\* pair, a field whose name or dotted path is in both lists is in no node,
\* and an excluded relation field has no child node.
C1_ExclusionWins ==
    phase = "ready" =>
        /\ \A e \in IncludeSet \cap ExcludeSet : ~InTree(field_tree, e)
        /\ \A e \in ExcludeSet : ~HasChild(field_tree, e)

\* C2 as claimed: include {title, author__name} with no exclusions builds a
\* root that holds only title and a child node under author that holds only
\* name, so the dotted entry alone creates the child node.
C2_DottedEntryCreatesChild ==
    (/\ phase = "ready"
     /\ form_model = "Post"
     /\ form_fields = Some(<<title, Path2(author, name)>>)
     /\ form_exclude = <<>>)
    => /\ FieldNames(field_tree) = {title}
       /\ DOMAIN field_tree.children = {author}
       /\ FieldNames(field_tree.children[author]) = {name}

\* C2 as amended: a dotted entry alone creates no node.  With an include
\* list, the root has a child node exactly for the relations whose bare name
\* is in the list and not excluded; include {title, author__name} builds a
\* root that holds only title and has no child, and include {title, author,
\* author__name} builds a root that holds title and the relation field
\* author, with a child under author that holds only name.
C2_BareRelationCreatesChild ==
    phase = "ready" =>
        /\ form_fields # None =>
              DOMAIN field_tree.children =
                  {r \in IncludeSet \ ExcludeSet :
                      HasField(form_model, r) /\ IsForeignKey(FieldObj(form_model, r))}
        /\ (/\ form_model = "Post"
            /\ form_fields = Some(<<title, Path2(author, name)>>)
            /\ form_exclude = <<>>)
           => /\ field_tree.fields = <<FieldObj("Post", title)>>
              /\ DOMAIN field_tree.children = {}
        /\ (/\ form_model = "Post"
            /\ form_fields = Some(<<title, author, Path2(author, name)>>)
            /\ form_exclude = <<>>)
           => /\ field_tree.fields = <<FieldObj("Post", title), FieldObj("Post", author)>>
              /\ DOMAIN field_tree.children = {author}
              /\ field_tree.children[author].model = "User"
              /\ field_tree.children[author].fields = <<FieldObj("User", name)>>
              /\ DOMAIN field_tree.children[author].children = {}

\* the tree of include {title, author, author__name} has been built
C2_Witness ==
    /\ phase = "ready"
    /\ form_model = "Post"
    /\ form_fields = Some(<<title, author, Path2(author, name)>>)
    /\ form_exclude = <<>>
    /\ author \in DOMAIN field_tree.children

\* C8: make_field_tree always terminates by itself.  A build ends with a
\* tree or, when the relations form a cycle that nothing bounds, with the
\* error UnboundedFieldTree; it never recurses until the interpreter's limit
\* on nested calls stops it.
C8_BuildStopsItself ==
    phase = "failed" => error = "UnboundedFieldTree"

\* 'rel__rest' with only the leading 'rel__' removed
rest_entries(entries, rel) ==
    LET prefix == rel \o Dunder
        scoped == SelectSeq(entries, LAMBDA e : startswith(e, prefix))
    IN [i \in 1..Len(scoped) |-> SubSeq(scoped[i], Len(prefix) + 1, Len(scoped[i]))]

\* C9: at every level, the child tree of relation rel is built from the
\* include and exclude entries rel__rest, each passed as exactly rest.
C9_ChildGetsRest ==
    phase = "ready" =>
        \A p \in Paths(field_tree) : \A node \in NodeAt(field_tree, p) :
            \A r \in DOMAIN node.children :
                /\ node.children[r].in_exclude = rest_entries(node.in_exclude, r)
                /\ node.in_fields # None =>
                      node.children[r].in_fields
                          = Some(rest_entries(TheList(node.in_fields), r))

---------------------------------------------------------------------------
(* Properties of request processing, checked under SpecReq *)

Visits == _dfs(field_tree, <<>>, <<>>, <<>>)
Inputs == FormInputs(TheForm, <<>>)
\* of the form's inputs, those whose select and value are both in the request
MatchedOf(inputs) == {x \in inputs : x.select \in DOMAIN args /\ x.value \in DOMAIN args}
Min(a, b) == IF a < b THEN a ELSE b
Pairs(x) == Min(Len(args[x.select]), Len(args[x.value]))
\* the nesting depth a parameter name states: one separator for each level
Depth(pname) == Cardinality({i \in 1..Len(pname) : pname[i] = "-"})
AllMatches == UNION {{accum[f][j] : j \in 1..Len(accum[f])} : f \in DOMAIN accum}
Range(s) == {s[i] : i \in 1..Len(s)}

\* C3: round trip between the form and the parser.  The names the form
\* gives its inputs, a select and a value input for each field at every
\* depth, are exactly the names the parser looks up; and a request that
\* encodes (field, operator index, value) under those names, the index
\* as the choice the select offers for it, is parsed back to the same set.
C3_RoundTrip ==
    phase \in {"ready", "done"} =>
        LET form == TheForm
            inputs == FormInputs(form, <<>>)
            visits == Visits
            matched == MatchedOf(inputs)
        IN /\ FormNames(form, <<>>)
                 = {v.qf_s : v \in Range(visits)} \cup {v.qf_v : v \in Range(visits)}
           /\ {<<x.select, x.value>> : x \in inputs}
                 = {<<v.qf_s, v.qf_v>> : v \in Range(visits)}
           /\ (phase = "done" /\ error = "none") =>
                 LET sent == UNION {UNION {{<<x.select, k - 1, x.value, args[x.value][j]>> :
                                               k \in {c \in 1..Len(x.choices) :
                                                         x.choices[c] = args[x.select][j]}} :
                                           j \in 1..Pairs(x)} : x \in matched}
                     offered == \A x \in matched : \A j \in 1..Pairs(x) :
                                    InSeq(args[x.select][j], x.choices)
                 IN /\ sent \subseteq Range(cleaned)
                    /\ offered => sent = Range(cleaned)

\* a request with a field two relations below the root has been parsed back
C3_Witness ==
    /\ phase = "done"
    /\ error = "none"
    /\ \E i \in 1..Len(cleaned) : Depth(cleaned[i][1]) = 2 /\ cleaned[i][2] = 0

\* C4: process_request ends with an error for every matched field with a
\* selector, paired with a value, that is not the decimal form of an index
\* into the field's list of operators.
C4_InvalidSelectorRaises ==
    phase = "done" =>
        ((\E x \in MatchedOf(Inputs) : \E j \in 1..Pairs(x) :
              ~InSeq(args[x.select][j], x.choices))
            => error # "none")

\* C5: process_request ends with an error when the selector and the value
\* of one field come with different numbers of occurrences.
C5_MismatchRaises ==
    phase = "done" =>
        ((\E x \in MatchedOf(Inputs) : Len(args[x.select]) # Len(args[x.value]))
            => error # "none")

endswith(s, p) == Len(s) >= Len(p) /\ SubSeq(s, Len(s) - Len(p) + 1, Len(s)) = p

RECURSIVE SumDepth(_)
SumDepth(xs) ==
    IF xs = {} THEN 0
    ELSE LET x == CHOOSE y \in xs : TRUE IN Depth(x.select) + SumDepth(xs \ {x})

\* C6: for each field with k >= 1 (selector, value) pairs the query gets
\* exactly one where-clause, the OR of the k predicates in order, after one
\* switch to the root model and one join for each relation hop to the field.
C6_OneWherePerField ==
    (phase = "done" /\ error = "none") =>
        LET matched == MatchedOf(Inputs)
        IN /\ Cardinality({i \in 1..Len(query) : query[i].op = "where"}) = Cardinality(matched)
           /\ Cardinality({i \in 1..Len(query) : query[i].op = "join"}) = SumDepth(matched)
           /\ \A x \in matched :
                 \E i \in 1..Len(query) :
                     /\ query[i].op = "where"
                     /\ Len(query[i].q_objects) = Pairs(x)
                     /\ \A j \in 1..Pairs(x) :
                           /\ query[i].q_objects[j].value = args[x.value][j]
                           /\ endswith(x.select, fo_ \o query[i].q_objects[j].field.name)
                     /\ i > Depth(x.select) + 1
                     /\ query[i - Depth(x.select) - 1].op = "switch"
                     /\ \A h \in 1..Depth(x.select) : query[i - h].op = "join"

\* C7: a field contributes a match if and only if both its selector and its
\* value parameter are in the request; a match holds the request's lists
\* for that field, and a request with no field of both raises nothing.
C7_BothParametersNeeded ==
    phase = "done" =>
        LET visits == Visits
            matches == AllMatches
        IN /\ \A v \in Range(visits) :
                 (\E m \in matches : m.field = v.field /\ m.qf_s = v.qf_s /\ m.qf_v = v.qf_v)
                     <=> (v.qf_s \in DOMAIN args /\ v.qf_v \in DOMAIN args)
           /\ \A m \in matches :
                 /\ m.qf_s \in DOMAIN args /\ m.filter_idx_list = args[m.qf_s]
                 /\ m.qf_v \in DOMAIN args /\ m.filter_value_list = args[m.qf_v]
           /\ (\A v \in Range(visits) : ~(v.qf_s \in DOMAIN args /\ v.qf_v \in DOMAIN args))
                 => (matches = {} /\ error = "none" /\ query = <<>>)

\* a request with only the selector of one field and both parameters of
\* another has been parsed
C7_Witness ==
    /\ phase = "done"
    /\ \E x \in Inputs : x.select \in DOMAIN args /\ x.value \notin DOMAIN args
    /\ Cardinality(AllMatches) = 1
    /\ error = "none"

\* C10: a match of a field held by a node at depth d records a model path
\* and a join path of length d: the relation names of the edges from the
\* root to the node, and the models of the nodes they reach.
C10_JoinPaths ==
    phase = "done" =>
        \A m \in AllMatches :
            /\ Len(m.join_path) = Depth(m.qf_s)
            /\ Len(m.path) = Depth(m.qf_s)
            /\ \E node \in NodeAt(field_tree, m.join_path) : InSeq(m.field, node.fields)
            /\ \A i \in 1..Len(m.join_path) :
                  /\ \E node \in NodeAt(field_tree, SubSeq(m.join_path, 1, i)) :
                        m.path[i] = node.model
                  /\ m.path[i] = rel_to(IF i = 1 THEN form_model ELSE m.path[i - 1],
                                        m.join_path[i])

\* matches one and two relations below the root have been recorded
C10_Witness ==
    /\ phase = "done"
    /\ \E m \in AllMatches : Len(m.join_path) = 2 /\ Len(m.path) = 2
    /\ \E m \in AllMatches : Len(m.join_path) = 1

====
